---- MODULE Spec2Model ----
(***************************************************************************)
(* Model of the builder's executor: core.Build lowers a DAG of frozen      *)
(* targets to a paralleltree.Node tree (dagToNode) and runs it with        *)
(* paralleltree.ProcessConcurrently, whose workers (processNode) walk the   *)
(* tree with the per-node atomic flags `acquired` and `finished` and the    *)
(* shared `cancel` flag.                                                    *)
(***************************************************************************)
EXTENDS Integers, Sequences, FiniteSets, TLC

\* ------------------------------------------------------------------------
\* Bounds
\* ------------------------------------------------------------------------
\* largest number of frozen targets in a DAG
MaxNodes == 3
\* largest `concurrency` passed to ProcessConcurrently
MaxWorkers == 2
\* largest number of targets whose execute call returns an error
MaxFail == 2

\* the nil error
Nil == 0

\* ------------------------------------------------------------------------
\* DAGs of frozen targets (core.DAG).  A frozen target is named by its
\* FrozenTargetID, here 1..n; target 1 is the root handed to Build.
\* deps[i] is the ordered Dependencies slice of target i.
\* ------------------------------------------------------------------------
SeqsNoDup(S) ==
    UNION { { s \in [1..Cardinality(T) -> T] :
                \A i, j \in 1..Cardinality(T) : i # j => s[i] # s[j] } :
            T \in SUBSET S }

Range(s) == { s[i] : i \in DOMAIN s }

RECURSIVE ReachFrom(_, _, _)
ReachFrom(d, S, k) ==
    IF k = 0 THEN S
    ELSE ReachFrom(d, S \cup UNION { Range(d[i]) : i \in S }, k - 1)

Dags ==
    UNION { { d \in [1..n -> SeqsNoDup(2..n)] :
                /\ \A i \in 1..n : \A j \in Range(d[i]) : j > i
                /\ ReachFrom(d, {1}, n) = 1..n } :
            n \in 1..MaxNodes }

\* ------------------------------------------------------------------------
\* core.dagToNode: the paralleltree.Node tree built for a DAG.  Tree nodes
\* are objects of their own (each has its own flags); `nodes` is the heap
\* of the nodes allocated so far, a node being [id, children] with children
\* a sequence of heap indices.  seen2 is the map shared by the recursion.
\* ------------------------------------------------------------------------
\* `_, found := seen2[dependency.ID.String()]`.  The key is the id printed
\* as "%s:%s@%d"; equal ids print alike, and the ids 1..n stand for frozen
\* targets whose printed forms differ.
seen2FoundNever(dependency, seen2) == FALSE

seen2Found(dependency, seen2) == dependency \in seen2

RECURSIVE dagToNode(_, _, _), dagToNodeLoop(_, _, _, _, _)
dagToNodeLoop(d, dag, i, acc, children) ==
    IF i > Len(d[dag])
    THEN [seen2 |-> acc.seen2,
          nodes |-> Append(acc.nodes, [id |-> dag, children |-> children])]
    ELSE LET dependency == d[dag][i] IN
         IF seen2Found(dependency, acc.seen2)
         THEN dagToNodeLoop(d, dag, i + 1, acc, children)
         ELSE LET sub == dagToNode(d, dependency, acc) IN
              dagToNodeLoop(d, dag, i + 1,
                            [seen2 |-> sub.seen2 \cup {dependency},
                             nodes |-> sub.nodes],
                            Append(children, Len(sub.nodes)))

dagToNode(d, dag, acc) == dagToNodeLoop(d, dag, 1, acc, <<>>)

\* the tree Build hands to ProcessConcurrently; its root is the last node
BuildTree(d) == dagToNode(d, 1, [seen2 |-> {}, nodes |-> <<>>]).nodes

VARIABLES
    deps,         \* the DAG given to Build
    failing,      \* the frozen targets whose execute call returns an error
    tree,         \* heap of paralleltree.Node: [id, children]
    concurrency,  \* number of workers
    acquired,     \* Node.acquired, per tree node
    finished,     \* Node.finished, per tree node
    cancel,       \* the shared cancel flag
    seen,         \* the frozenTargetSet given to dagToNode
    stack,        \* per worker: the processNode frames (tree nodes), top last
    pc,           \* per worker: position in the top frame
    idx,          \* per worker: index of the child loop of the top frame
    rv,           \* per worker: the value processNode returned at the root
    mainpc,       \* position of ProcessConcurrently itself
    received,     \* loop counter i of the receive loop
    err,          \* the value just received from errs
    out,          \* `out` of ProcessConcurrently
    fstate,       \* per tree node: state of the call of f
    calls,        \* per tree node: number of calls of f
    executes,     \* per frozen target: number of calls of execute
    recvd         \* the values received from errs, in order

\* ------------------------------------------------------------------------
\* The cache on disk (core.Cache over LocalCache) and the calls that write
\* to it.  A caller is one goroutine or process inside Cache.TempDir or
\* Cache.Write.
\* ------------------------------------------------------------------------
VARIABLES
    cfs,          \* per artifact id: what is at path(id), or NoEntry
    cop,          \* per caller: "TempDir" or "Write"
    cid,          \* per caller: the artifact id it publishes
    cpc,          \* per caller: position in TempDir / Write
    ctmp,         \* per caller: the files in its staging directory, or NoDir
    crel,         \* per caller: the relative path its callback returned
    cerr,         \* per caller: whether its callback returned an error
    cres,         \* per caller: what the call returned: "none", "ok", "err"
    cstaged,      \* per caller: what its callback left at dir/relpath
    cold          \* per caller: what was at path(id) when it was called

cachevars == <<cfs, cop, cid, cpc, ctmp, crel, cerr, cres, cstaged, cold>>

poolvars == <<deps, failing, tree, concurrency, acquired, finished, cancel,
              seen, stack, pc, idx, rv, mainpc, received, err, out, fstate,
              calls, executes, recvd>>

\* ------------------------------------------------------------------------
\* The executor (core.LocalExecutor) over two Builds of one DAG against one
\* cache.
\* ------------------------------------------------------------------------
VARIABLES
    xplugin,      \* per target: the kind of plugin its builder type selects
    xcache,       \* the targets whose artifact has an entry at path(id)
    xbuild,       \* the Build that is running: 1, 2, or 3 when both are over
    xpc,          \* per target: position of execute in the running Build
    xprobe,       \* per Build and target: what cache.Exists returned
    xscripts,     \* per Build and target: invocations of the build script
    xres,         \* per Build: what Build returned: "none", "ok", "err"
    xfailed       \* per Build: the targets whose build script returned an
                  \* error

execvars == <<xplugin, xcache, xbuild, xpc, xprobe, xscripts, xres,
              xfailed>>

\* ------------------------------------------------------------------------
\* The path function of LocalCache, applied to two artifact ids.
\* ------------------------------------------------------------------------
VARIABLES
    pids,         \* the two artifact ids
    ppaths        \* their paths, once LocalCache has been applied

pathvars == <<pids, ppaths>>

\* ------------------------------------------------------------------------
\* The freezer (core.FreezeTarget) over a workspace of source files.
\* ------------------------------------------------------------------------
VARIABLES
    zroot,        \* the Target that is frozen
    zws,          \* the workspace: per relative path the bytes of the file
    zcache,       \* the file-group artifacts published in the cache
    zrun,         \* the number of FreezeTarget calls made
    zout,         \* per FreezeTarget call: the DAG and what the freezer did
    zchange       \* the file and position of the byte that was changed

freezevars == <<zroot, zws, zcache, zrun, zout, zchange>>

\* --- the module loader of Evaluator.Evaluate ---
VARIABLES
    lloads,       \* per file (0: the BUILD file): its load statements in order
    lcache,       \* the map `cache`: per module "absent", "nil" (the
                  \* placeholder), or the entry "ok" / "err"
    lstack,       \* the ExecFile calls in progress, innermost last
    lexecs,       \* per module: how many times ExecFile ran it
    lhist,        \* the calls of load so far: module and how it was answered
    lres          \* what Evaluate returned: "none", "ok", "err"

loadvars == <<lloads, lcache, lstack, lexecs, lhist, lres>>

\* --- core.ParseTargetID ---
VARIABLES
    rworkspace,   \* the workspace root: an absolute path, its names in order
    rcwd,         \* the working directory, an absolute path
    rs,           \* the reference string: the text before the first colon as
                  \* its "/"-separated components, and the text after it
    rout          \* what ParseTargetID returned

refvars == <<rworkspace, rcwd, rs, rout>>

\* --- slutil.ParseArgs ---
VARIABLES
    aspec,        \* the ArgsSpec: the keywords of PosSpecs and of KwSpecs
    aargs,        \* the Args: the positional values and the keywords of Kw
    aout          \* what ParseArgs returned

argvars == <<aspec, aargs, aout>>

vars == <<poolvars, cachevars, execvars, pathvars, freezevars,
         loadvars,
         refvars,
         argvars>>

\* nothing at a path
NoEntry == [kind |-> "none"]
\* a staging directory with the files W in it, and no staging directory
Dir(W) == [exists |-> TRUE, files |-> W]
NoDir == [exists |-> FALSE, files |-> {}]

\* the cache of a run in which no caller is modelled
CacheIdle ==
    /\ cfs = <<>>
    /\ cop = <<>>
    /\ cid = <<>>
    /\ cpc = <<>>
    /\ ctmp = <<>>
    /\ crel = <<>>
    /\ cerr = <<>>
    /\ cres = <<>>
    /\ cstaged = <<>>
    /\ cold = <<>>

\* the executor of a run in which no Build over a cache is modelled
ExecIdle ==
    /\ xplugin = <<>>
    /\ xcache = {}
    /\ xbuild = 0
    /\ xpc = <<>>
    /\ xprobe = <<>>
    /\ xscripts = <<>>
    /\ xres = <<>>
    /\ xfailed = <<>>

\* no path is computed
PathIdle ==
    /\ pids = <<>>
    /\ ppaths = <<>>

\* nothing is frozen
FreezeIdle ==
    /\ zroot = <<>>
    /\ zws = <<>>
    /\ zcache = {}
    /\ zrun = 0
    /\ zout = <<>>
    /\ zchange = <<>>

\* no Evaluate call is running
LoadIdle ==
    /\ lloads = <<>> /\ lcache = <<>> /\ lstack = <<>>
    /\ lexecs = <<>> /\ lhist = <<>> /\ lres = "idle"

\* no reference is being parsed
RefIdle ==
    /\ rworkspace = <<>> /\ rcwd = <<>> /\ rs = <<>> /\ rout = <<>>

\* no call of ParseArgs is looked at
ArgIdle ==
    /\ aspec = <<>> /\ aargs = <<>> /\ aout = <<>>

TNodes == DOMAIN tree
Root == Len(tree)
Workers == 1..concurrency
Targets == DOMAIN deps

Init ==
    /\ deps \in Dags
    /\ failing \in { F \in SUBSET (DOMAIN deps) : Cardinality(F) <= MaxFail }
    /\ tree = BuildTree(deps)
    /\ concurrency \in 0..MaxWorkers
    /\ acquired = [n \in DOMAIN tree |-> FALSE]
    /\ finished = [n \in DOMAIN tree |-> FALSE]
    /\ cancel = FALSE
    /\ seen = {}
    /\ stack = [w \in 1..concurrency |-> <<Len(tree)>>]
    /\ pc = [w \in 1..concurrency |-> "checkCancel"]
    /\ idx = [w \in 1..concurrency |-> 0]
    /\ rv = [w \in 1..concurrency |-> Nil]
    /\ mainpc = "recv"
    /\ received = 0
    /\ err = Nil
    /\ out = Nil
    /\ fstate = [n \in DOMAIN tree |-> "idle"]
    /\ calls = [n \in DOMAIN tree |-> 0]
    /\ executes = [t \in DOMAIN deps |-> 0]
    /\ recvd = <<>>
    /\ LoadIdle
    /\ RefIdle
    /\ ArgIdle
    /\ CacheIdle
    /\ ExecIdle
    /\ PathIdle
    /\ FreezeIdle

Top(w) == stack[w][Len(stack[w])]

\* what no step of a run changes
static == <<deps, failing, tree, concurrency, seen, cachevars, execvars,
           pathvars,
           freezevars,
           loadvars,
           refvars,
           argvars>>
\* the state of ProcessConcurrently itself
mainvars == <<mainpc, received, err, out, recvd>>
\* the record of the calls of f and execute
callvars == <<fstate, calls, executes>>

\* ------------------------------------------------------------------------
\* paralleltree.processNode, one action per access to shared state
\* ------------------------------------------------------------------------
\* `return v` of the top frame.  An error is handed up through every frame
\* (`if err != nil { return err }`); nil makes the caller `continue`.
ReturnFrom(w, v) ==
    IF v # Nil \/ Len(stack[w]) = 1
    THEN /\ stack' = [stack EXCEPT ![w] = <<>>]
         /\ pc' = [pc EXCEPT ![w] = "send"]
         /\ rv' = [rv EXCEPT ![w] = v]
         /\ idx' = [idx EXCEPT ![w] = 0]
    ELSE /\ stack' = [stack EXCEPT ![w] = SubSeq(@, 1, Len(@) - 1)]
         /\ pc' = [pc EXCEPT ![w] = "checkCancel"]
         /\ rv' = rv
         /\ idx' = [idx EXCEPT ![w] = 0]

\* get(cancel)
getNever(flag) == FALSE

get(flag) == flag

\* top of the `for` loop: `if get(cancel) { return nil }`
CheckCancel(w) ==
    /\ pc[w] = "checkCancel"
    /\ IF get(cancel)
       THEN ReturnFrom(w, Nil)
       ELSE /\ pc' = [pc EXCEPT ![w] = "nextFree"]
            /\ idx' = [idx EXCEPT ![w] = 1]
            /\ UNCHANGED <<stack, rv>>
    /\ UNCHANGED <<static, mainvars, callvars, acquired, finished, cancel>>

\* nextFreeChild: one load of a child's `acquired`; a free child is entered
NextFreeChild(w) ==
    /\ pc[w] = "nextFree"
    /\ LET n == Top(w) IN
       IF idx[w] > Len(tree[n].children)
       THEN /\ pc' = [pc EXCEPT ![w] = "checkFinished"]
            /\ idx' = [idx EXCEPT ![w] = 1]
            /\ stack' = stack
       ELSE LET child == tree[n].children[idx[w]] IN
            IF ~acquired[child]
            THEN /\ stack' = [stack EXCEPT ![w] = Append(@, child)]
                 /\ pc' = [pc EXCEPT ![w] = "checkCancel"]
                 /\ idx' = [idx EXCEPT ![w] = 0]
            ELSE /\ idx' = [idx EXCEPT ![w] = @ + 1]
                 /\ UNCHANGED <<stack, pc>>
    /\ UNCHANGED <<static, mainvars, callvars, acquired, finished, cancel, rv>>

\* `get(&child.finished)`
childFinishedAlways(child) == TRUE

childFinished(child) == finished[child]

\* the loop over n.children that loads each child's `finished`
CheckFinished(w) ==
    /\ pc[w] = "checkFinished"
    /\ LET n == Top(w) IN
       IF idx[w] > Len(tree[n].children)
       THEN /\ pc' = [pc EXCEPT ![w] = "acquire"]
            /\ idx' = [idx EXCEPT ![w] = 0]
            /\ UNCHANGED <<stack, rv>>
       ELSE IF ~childFinished(tree[n].children[idx[w]])
            THEN ReturnFrom(w, Nil)
            ELSE /\ idx' = [idx EXCEPT ![w] = @ + 1]
                 /\ UNCHANGED <<stack, pc, rv>>
    /\ UNCHANGED <<static, mainvars, callvars, acquired, finished, cancel>>

\* toggleIfFalse: whether the compare-and-swap false -> true succeeds
toggleIfFalseBlind(n) == TRUE

toggleIfFalse(n) == ~acquired[n]

\* acquire: the compare-and-swap on n.acquired; the winner calls n.f, which
\* calls execute unless the target is in `seen`
Acquire(w) ==
    /\ pc[w] = "acquire"
    /\ LET n == Top(w) IN
       IF toggleIfFalse(n)
       THEN /\ acquired' = [acquired EXCEPT ![n] = TRUE]
            /\ pc' = [pc EXCEPT ![w] = "inF"]
            /\ fstate' = [fstate EXCEPT ![n] = "running"]
            /\ calls' = [calls EXCEPT ![n] = @ + 1]
            /\ executes' = [executes EXCEPT ![tree[n].id] =
                              IF tree[n].id \in seen THEN @ ELSE @ + 1]
            /\ UNCHANGED <<stack, rv, idx>>
       ELSE /\ ReturnFrom(w, Nil)
            /\ UNCHANGED <<acquired, callvars>>
    /\ UNCHANGED <<static, mainvars, finished, cancel>>

\* n.f returns: the error of execute, or nil
FReturns(w) ==
    /\ pc[w] = "inF"
    /\ LET n == Top(w) IN
       IF tree[n].id \in failing /\ tree[n].id \notin seen
       THEN /\ fstate' = [fstate EXCEPT ![n] = "err"]
            /\ ReturnFrom(w, tree[n].id)
       ELSE /\ fstate' = [fstate EXCEPT ![n] = "ok"]
            /\ pc' = [pc EXCEPT ![w] = "setFinished"]
            /\ UNCHANGED <<stack, rv, idx>>
    /\ UNCHANGED <<static, mainvars, calls, executes, acquired, finished,
                   cancel>>

\* the flags after set(&n.finished, true)
setFinishedLost(n) == finished

setFinished(n) == [finished EXCEPT ![n] = TRUE]

\* set(&n.finished, true), then `return nil`
SetFinished(w) ==
    /\ pc[w] = "setFinished"
    /\ finished' = setFinished(Top(w))
    /\ ReturnFrom(w, Nil)
    /\ UNCHANGED <<static, mainvars, callvars, acquired, cancel>>

\* ------------------------------------------------------------------------
\* paralleltree.ProcessConcurrently
\* ------------------------------------------------------------------------
\* `err := <-errs`: the rendezvous with a worker's `errs <- processNode(..)`
Receive(w) ==
    /\ mainpc = "recv"
    /\ received < concurrency
    /\ pc[w] = "send"
    /\ pc' = [pc EXCEPT ![w] = "done"]
    /\ err' = rv[w]
    /\ recvd' = Append(recvd, rv[w])
    /\ mainpc' = "handle"
    /\ UNCHANGED <<static, callvars, acquired, finished, cancel, stack, idx,
                   rv, received, out>>

\* `out = err`
keepFirst(o, e) == IF o = Nil THEN e ELSE o

assignOut(o, e) == e

\* `if err != nil { set(&cancel, true); out = err }` and the loop's i++
Handle ==
    /\ mainpc = "handle"
    /\ IF err # Nil
       THEN cancel' = TRUE /\ out' = assignOut(out, err)
       ELSE UNCHANGED <<cancel, out>>
    /\ received' = received + 1
    /\ mainpc' = "recv"
    /\ UNCHANGED <<static, callvars, acquired, finished, stack, pc, idx, rv,
                   err, recvd>>

\* the nodes reset visits: n and every node below it
RECURSIVE Below(_)
Below(n) == {n} \cup UNION { Below(tree[n].children[i]) :
                               i \in DOMAIN tree[n].children }

\* reset: set(&n.acquired, true), set(&n.finished, true), then the children
reset(n, flags) == [m \in DOMAIN flags |-> IF m \in Below(n) THEN TRUE
                                           ELSE flags[m]]

\* the receive loop `for i := 0; i < concurrency; i++` has run out
loopDoneEarly(i) == TRUE

loopDone(i) == ~(i < concurrency)

\* `return out`, with the deferred reset(n)
Return ==
    /\ mainpc = "recv"
    /\ loopDone(received)
    /\ acquired' = reset(Root, acquired)
    /\ finished' = reset(Root, finished)
    /\ mainpc' = "returned"
    /\ UNCHANGED <<static, callvars, cancel, stack, pc, idx, rv, received,
                   err, out, recvd>>

\* one step of worker w (a goroutine started by ProcessConcurrently)
Worker(w) ==
    /\ w \in Workers
    /\ \/ CheckCancel(w)
       \/ NextFreeChild(w)
       \/ CheckFinished(w)
       \/ Acquire(w)
       \/ FReturns(w)
       \/ SetFinished(w)

\* one step of the goroutine that called ProcessConcurrently
Main ==
    \/ \E w \in Workers : Receive(w)
    \/ Handle
    \/ Return

Next ==
    \/ \E w \in 1..MaxWorkers : Worker(w)
    \/ Main

Spec == Init /\ [][Next]_vars

\* The Go scheduler runs every runnable goroutine eventually, and every f
\* terminates: weak fairness of each worker and of the receiving goroutine.
FairSpec ==
    /\ Spec
    /\ \A w \in 1..MaxWorkers : WF_vars(Worker(w))
    /\ WF_vars(Main)

TypeOK ==
    /\ cancel \in BOOLEAN
    /\ mainpc \in {"recv", "handle", "returned"}
    /\ \A w \in Workers : pc[w] \in {"checkCancel", "nextFree",
          "checkFinished", "acquire", "inF", "setFinished", "send", "done"}
    /\ \A n \in TNodes : fstate[n] \in {"idle", "running", "ok", "err"}

\* ------------------------------------------------------------------------
\* Properties
\* ------------------------------------------------------------------------
Kids(n) == Range(tree[n].children)

\* the workers that are inside the call n.f() or just back from it
InF(n) == { w \in Workers : pc[w] \in {"inF", "setFinished"} /\ Top(w) = n }

\* the tree nodes made for frozen target t
NodesOf(t) == { n \in TNodes : tree[n].id = t }

Returned == mainpc = "returned"

\* C1: in a run of ProcessConcurrently every node's f is invoked at most
\* once, whatever the number of workers and the interleaving: one worker
\* wins the compare-and-swap on `acquired`, and only that worker is in f.
C1_AtMostOnce ==
    \A n \in TNodes :
        /\ calls[n] <= 1
        /\ Cardinality(InF(n)) <= 1
        /\ (fstate[n] # "idle") = (calls[n] = 1)
        /\ InF(n) # {} => calls[n] = 1

\* a second worker is about to try the compare-and-swap on a node that
\* another worker has already won
C1_Witness ==
    \E n \in TNodes : \E w \in Workers :
        /\ calls[n] = 1
        /\ pc[w] = "acquire"
        /\ Top(w) = n

\* C2: a node's f is invoked only after the f of each of its children has
\* returned nil: once a node has been acquired and its f called, every child
\* has `finished` set and its own f back with nil.
C2_ChildrenFirst ==
    \A n \in TNodes :
        fstate[n] # "idle" =>
            \A c \in Kids(n) : finished[c] /\ fstate[c] = "ok"

\* the f of a node with children is running while other workers are around
C2_Witness ==
    \E n \in TNodes :
        /\ Kids(n) # {}
        /\ fstate[n] = "running"
        /\ concurrency >= 2
        /\ ~Returned

\* C3: if no f fails and concurrency >= 1, then under fair scheduling
\* ProcessConcurrently eventually returns nil, and at that point every node
\* of the tree has had its f invoked exactly once.
C3_AllRunThenReturn ==
    (failing = {} /\ concurrency >= 1) =>
        <>(Returned /\ out = Nil /\ \A n \in TNodes : calls[n] = 1)

\* a run of two workers over a tree of three nodes has returned with every
\* f invoked once
C3_Witness ==
    /\ failing = {}
    /\ concurrency >= 2
    /\ Len(tree) >= 3
    /\ Returned
    /\ out = Nil
    /\ \A n \in TNodes : calls[n] = 1

\* C4: in Build, for every dependency edge child -> parent of the DAG, the
\* parent's execute call begins only after the child's call has returned
\* successfully.
C4_DagOrder ==
    \A p \in Targets : \A c \in Range(deps[p]) :
        (\E n \in NodesOf(p) : fstate[n] # "idle") =>
            (\E m \in NodesOf(c) : fstate[m] = "ok")

\* the frozen targets that depend on t, directly or transitively
RECURSIVE Dependents(_, _)
Dependents(S, k) ==
    IF k = 0 THEN S
    ELSE Dependents(S \cup { p \in Targets : Range(deps[p]) \cap S # {} },
                    k - 1)

\* C5: if the plugin call of a DAG node returns an error, no node that
\* depends on it has its plugin invoked in that invocation, and Build
\* returns a non-nil error.
C5_FailureStopsDependents ==
    \A z \in Targets :
        (\E n \in NodesOf(z) : fstate[n] = "err") =>
            /\ \A p \in Dependents({z}, Cardinality(Targets)) \ {z} :
                   \A m \in NodesOf(p) : fstate[m] = "idle"
            /\ Returned => out # Nil

\* the frozen targets that are a dependency of two or more nodes
Shared == { t \in Targets :
              Cardinality({ p \in Targets : t \in Range(deps[p]) }) >= 2 }

\* C6: in a Build in which no plugin fails, execute is invoked exactly once
\* for a frozen target that is a dependency of two or more nodes.
C6_SharedOnce ==
    \A t \in Shared :
        /\ executes[t] <= 1
        /\ (Returned /\ failing = {} /\ concurrency >= 1) => executes[t] = 1

\* a Build over a DAG with a shared target has returned
C6_Witness ==
    /\ Returned
    /\ failing = {}
    /\ concurrency >= 2
    /\ \E t \in Shared : executes[t] = 1

\* C7: once the cancel flag is set, no worker begins a new node's f.
C7_NoNewWorkAfterCancel ==
    [][cancel => \A n \in TNodes : fstate[n] = "idle" => fstate'[n] = "idle"]_vars

RECURSIVE LastNonNil(_)
LastNonNil(s) ==
    IF s = <<>> THEN Nil
    ELSE IF s[Len(s)] # Nil THEN s[Len(s)]
    ELSE LastNonNil(SubSeq(s, 1, Len(s) - 1))

\* C8: ProcessConcurrently returns a non-nil error exactly when some f
\* returned an error, and the value returned is the error received last
\* among the non-nil results of the workers.
C8_LastError ==
    Returned =>
        /\ (out # Nil) = (\E n \in TNodes : fstate[n] = "err")
        /\ out = LastNonNil(recvd)
        /\ Len(recvd) = concurrency

\* two workers handed back two different errors
C8_Witness ==
    /\ Returned
    /\ \E i, j \in DOMAIN recvd :
          i < j /\ recvd[i] # Nil /\ recvd[j] # Nil /\ recvd[i] # recvd[j]

\* C9: if some f returns an error, then under fair scheduling every worker
\* eventually returns and ProcessConcurrently returns.
C9_ErrorTerminates ==
    (\E n \in TNodes : fstate[n] = "err") ~>
        (Returned /\ \A w \in Workers : pc[w] = "done")

\* a run has ended after the failure of a node whose parent, not the root,
\* was never acquired by the workers
C9_Witness ==
    /\ Returned
    /\ concurrency >= 2
    /\ \A w \in Workers : pc[w] = "done"
    /\ \E n \in TNodes : \E p \in TNodes \ {Root} :
          n \in Kids(p) /\ fstate[n] = "err" /\ fstate[p] = "idle"

\* C10: after ProcessConcurrently returns, reset has set `acquired` and
\* `finished` of every node of the tree to false.
C10_FlagsCleared ==
    Returned => \A n \in TNodes : ~acquired[n] /\ ~finished[n]

\* two different children of node p
Siblings(p) == { cd \in Kids(p) \X Kids(p) : cd[1] # cd[2] }

\* C25: independent nodes may run concurrently, and the parent still waits:
\* while the f of two children of one parent are in flight together the
\* parent has not been acquired, and the step that invokes a parent's f is
\* taken only when the f of every child has returned nil and its `finished`
\* is set.
C25_SiblingsConcurrentParentAfter ==
    [][\A p \in TNodes :
          /\ (\E cd \in Siblings(p) :
                 fstate[cd[1]] = "running" /\ fstate[cd[2]] = "running")
                => (~acquired[p] /\ fstate[p] = "idle" /\ fstate'[p] = "idle")
          /\ (fstate[p] = "idle" /\ fstate'[p] = "running")
                => \A c \in Kids(p) : finished[c] /\ fstate[c] = "ok"]_vars

\* two workers are inside the f of two children of one parent at once
C25_Witness ==
    \E p \in TNodes : \E cd \in Siblings(p) :
        /\ concurrency >= 2
        /\ fstate[cd[1]] = "running"
        /\ fstate[cd[2]] = "running"
        /\ InF(cd[1]) # {} /\ InF(cd[2]) # {}
        /\ InF(cd[1]) # InF(cd[2])

\* the implications between the two flags of every node
FlagOrder ==
    \A n \in TNodes :
        /\ finished[n] => acquired[n]
        /\ acquired[n] => \A c \in Kids(n) : finished[c]

\* C28: before the final reset, finished(n) implies acquired(n) and
\* acquired(n) implies finished(c) for every child c of n, and no step of
\* the run takes a flag from true back to false.
C28_FlagInvariants ==
    [][~Returned' =>
          /\ FlagOrder
          /\ FlagOrder'
          /\ \A n \in TNodes : /\ acquired[n] => acquired'[n]
                               /\ finished[n] => finished'[n]]_vars

\* a node with children has been acquired and is not finished yet, and one
\* of its children was finished by another worker's f
C28_Witness ==
    /\ ~Returned
    /\ concurrency >= 2
    /\ \E n \in TNodes :
          /\ Cardinality(Kids(n)) >= 2
          /\ acquired[n]
          /\ ~finished[n]
          /\ fstate[n] = "running"

\* C29: when ProcessConcurrently returns, with or without an error, every
\* worker it started has handed over its result and returned and no f is in
\* flight; the deferred reset runs only after that.
C29_AllWorkersBack ==
    Returned =>
        /\ \A w \in Workers : pc[w] = "done"
        /\ \A n \in TNodes : fstate[n] # "running" /\ InF(n) = {}
        /\ received = concurrency

\* a run of two workers has returned an error while some f had succeeded
C29_Witness ==
    /\ Returned
    /\ concurrency >= 2
    /\ out # Nil
    /\ \E n \in TNodes : fstate[n] = "ok"
    /\ \E n \in TNodes : fstate[n] = "idle"

\* ------------------------------------------------------------------------
\* core.Cache: TempDir, withTempDir and Write on the file system
\* ------------------------------------------------------------------------
\* number of concurrent callers of the cache
MaxCallers == 2
\* number of artifact ids they publish
MaxArtifacts == 2

Callers == 1..MaxCallers
ArtifactIds == 1..MaxArtifacts
\* the names a callback may create inside its staging directory
Names == {"out", "junk"}

\* a regular file and a directory, as found at a path; src is the caller
\* that made it (0: it was there before), complete is whether its content
\* has been written in full
FileEntry(p, c) ==
    [kind |-> "file", files |-> {}, src |-> p, complete |-> c]
DirEntry(p, W) ==
    [kind |-> "dir", files |-> W, src |-> p, complete |-> TRUE]

\* what is at filepath.Join(dir, relpath): the staging directory itself for
\* relpath "", else the file of that name if the callback made it
joinDirOnly(W, rel, p) == DirEntry(p, W)

joinDirRelpath(W, rel, p) ==
    IF rel = "" THEN DirEntry(p, W)
    ELSE IF rel \in W THEN FileEntry(p, TRUE)
    ELSE NoEntry

renameAlwaysOK(src, dst) == TRUE

\* os.Rename (rename(2)): whether moving src onto dst succeeds
renameOK(src, dst) ==
    /\ src # NoEntry
    /\ \/ dst = NoEntry
       \/ src.kind = "file" /\ dst.kind = "file"
       \/ src.kind = "dir" /\ dst.kind = "dir" /\ dst.files = {}

CacheInit ==
    /\ cfs \in [ArtifactIds -> {NoEntry, FileEntry(0, TRUE),
                                DirEntry(0, {"out"})}]
    /\ cop \in [Callers -> {"TempDir", "Write"}]
    /\ cid \in [Callers -> ArtifactIds]
    /\ cpc = [p \in Callers |-> "start"]
    /\ ctmp = [p \in Callers |-> NoDir]
    /\ crel = [p \in Callers |-> ""]
    /\ cerr = [p \in Callers |-> FALSE]
    /\ cres = [p \in Callers |-> "none"]
    /\ cstaged = [p \in Callers |-> NoEntry]
    /\ cold = [p \in Callers |-> NoEntry]

\* withTempDir: ioutil.TempDir("", "") makes a new, empty directory
TempDirStart(p) ==
    /\ cop[p] = "TempDir"
    /\ cpc[p] = "start"
    /\ ctmp' = [ctmp EXCEPT ![p] = Dir({})]
    /\ cold' = [cold EXCEPT ![p] = cfs[cid[p]]]
    /\ cpc' = [cpc EXCEPT ![p] = "callback"]
    /\ UNCHANGED <<cfs, cop, cid, crel, cerr, cres, cstaged>>
    /\ UNCHANGED <<poolvars, execvars, pathvars, freezevars, loadvars,
                   refvars, argvars>>

\* where TempDir goes after `relpath, id, err := f(dir)`
afterCallbackAlways(e) == "mkdirAll"

afterCallback(e) == IF e THEN "removeOnErr" ELSE "mkdirAll"

\* f(dir): the callback creates files in the staging directory and returns
\* a relative path, or an error
Callback(p) ==
    /\ cpc[p] = "callback"
    /\ \E W \in SUBSET Names : \E rel \in {"", "out"} : \E e \in BOOLEAN :
          /\ e => rel = ""
          /\ ctmp' = [ctmp EXCEPT ![p] = Dir(W)]
          /\ crel' = [crel EXCEPT ![p] = rel]
          /\ cerr' = [cerr EXCEPT ![p] = e]
          /\ cstaged' = [cstaged EXCEPT ![p] = joinDirRelpath(W, rel, p)]
          /\ cpc' = [cpc EXCEPT ![p] = afterCallback(e)]
    /\ UNCHANGED <<cfs, cop, cid, cres, cold>>
    /\ UNCHANGED <<poolvars, execvars, pathvars, freezevars, loadvars,
                   refvars, argvars>>

\* os.Remove(dir): removes the directory only when it is empty
osRemove(d) == IF d.files = {} THEN NoDir ELSE d

\* the callback failed: `os.Remove(dir)`, then the error is returned
RemoveOnErr(p) ==
    /\ cpc[p] = "removeOnErr"
    /\ ctmp' = [ctmp EXCEPT ![p] = osRemove(@)]
    /\ cres' = [cres EXCEPT ![p] = "err"]
    /\ cpc' = [cpc EXCEPT ![p] = "done"]
    /\ UNCHANGED <<cfs, cop, cid, crel, cerr, cstaged, cold>>
    /\ UNCHANGED <<poolvars, execvars, pathvars, freezevars, loadvars,
                   refvars, argvars>>

\* os.MkdirAll(cacheParentDir): the parents of path(id)
MkdirAll(p) ==
    /\ cpc[p] \in {"mkdirAll", "wMkdirAll"}
    /\ cpc' = [cpc EXCEPT ![p] = IF @ = "mkdirAll" THEN "removeAll"
                                  ELSE "wCreate"]
    /\ UNCHANGED <<cfs, cop, cid, ctmp, crel, cerr, cres, cstaged, cold>>
    /\ UNCHANGED <<poolvars, execvars, pathvars, freezevars, loadvars,
                   refvars, argvars>>

\* os.RemoveAll(cachePath)
RemoveAll(p) ==
    /\ cpc[p] = "removeAll"
    /\ cfs' = [cfs EXCEPT ![cid[p]] = NoEntry]
    /\ cpc' = [cpc EXCEPT ![p] = "rename"]
    /\ UNCHANGED <<cop, cid, ctmp, crel, cerr, cres, cstaged, cold>>
    /\ UNCHANGED <<poolvars, execvars, pathvars, freezevars, loadvars,
                   refvars, argvars>>

\* os.Rename(filepath.Join(dir, relpath), cachePath); on an error TempDir
\* returns at once
Rename(p) ==
    /\ cpc[p] = "rename"
    /\ LET src == joinDirRelpath(ctmp[p].files, crel[p], p) IN
       IF renameOK(src, cfs[cid[p]])
       THEN /\ cfs' = [cfs EXCEPT ![cid[p]] = src]
            /\ ctmp' = [ctmp EXCEPT ![p] = IF crel[p] = "" THEN NoDir
                                            ELSE Dir(@.files \ {crel[p]})]
            /\ cpc' = [cpc EXCEPT ![p] = "cleanup"]
            /\ cres' = cres
       ELSE /\ cres' = [cres EXCEPT ![p] = "err"]
            /\ cpc' = [cpc EXCEPT ![p] = "done"]
            /\ UNCHANGED <<cfs, ctmp>>
    /\ UNCHANGED <<cop, cid, crel, cerr, cstaged, cold>>
    /\ UNCHANGED <<poolvars, execvars, pathvars, freezevars, loadvars,
                   refvars, argvars>>

\* withTempDir after f returned nil: os.Remove(dir); a directory that is
\* gone already is not an error
Cleanup(p) ==
    /\ cpc[p] = "cleanup"
    /\ ctmp' = [ctmp EXCEPT ![p] = osRemove(@)]
    /\ cres' = [cres EXCEPT ![p] = IF osRemove(ctmp[p]) = NoDir THEN "ok"
                                   ELSE "err"]
    /\ cpc' = [cpc EXCEPT ![p] = "done"]
    /\ UNCHANGED <<cfs, cop, cid, crel, cerr, cstaged, cold>>
    /\ UNCHANGED <<poolvars, execvars, pathvars, freezevars, loadvars,
                   refvars, argvars>>

\* Cache.Write begins
WriteStart(p) ==
    /\ cop[p] = "Write"
    /\ cpc[p] = "start"
    /\ cold' = [cold EXCEPT ![p] = cfs[cid[p]]]
    /\ cpc' = [cpc EXCEPT ![p] = "wMkdirAll"]
    /\ UNCHANGED <<cfs, cop, cid, ctmp, crel, cerr, cres, cstaged>>
    /\ UNCHANGED <<poolvars, execvars, pathvars, freezevars, loadvars,
                   refvars, argvars>>

\* os.Create(c.Path(id)): an empty file at the canonical path; fails on a
\* directory
WriteCreate(p) ==
    /\ cpc[p] = "wCreate"
    /\ IF cfs[cid[p]].kind = "dir"
       THEN /\ cres' = [cres EXCEPT ![p] = "err"]
            /\ cpc' = [cpc EXCEPT ![p] = "done"]
            /\ cfs' = cfs
       ELSE /\ cfs' = [cfs EXCEPT ![cid[p]] = FileEntry(p, FALSE)]
            /\ cpc' = [cpc EXCEPT ![p] = "wCallback"]
            /\ cres' = cres
    /\ UNCHANGED <<cop, cid, ctmp, crel, cerr, cstaged, cold>>
    /\ UNCHANGED <<poolvars, execvars, pathvars, freezevars, loadvars,
                   refvars, argvars>>

\* `return f(file)` and the deferred file.Close(): the callback writes the
\* content and returns nil, or stops with an error
WriteCallback(p) ==
    /\ cpc[p] = "wCallback"
    /\ \E e \in BOOLEAN :
          /\ cerr' = [cerr EXCEPT ![p] = e]
          /\ cres' = [cres EXCEPT ![p] = IF e THEN "err" ELSE "ok"]
          /\ cfs' = IF ~e /\ cfs[cid[p]] = FileEntry(p, FALSE)
                    THEN [cfs EXCEPT ![cid[p]] = FileEntry(p, TRUE)]
                    ELSE cfs
    /\ cpc' = [cpc EXCEPT ![p] = "done"]
    /\ UNCHANGED <<cop, cid, ctmp, crel, cstaged, cold>>
    /\ UNCHANGED <<poolvars, execvars, pathvars, freezevars, loadvars,
                   refvars, argvars>>

CacheNext ==
    \E p \in Callers :
        \/ TempDirStart(p)
        \/ Callback(p)
        \/ RemoveOnErr(p)
        \/ MkdirAll(p)
        \/ RemoveAll(p)
        \/ Rename(p)
        \/ Cleanup(p)
        \/ WriteStart(p)
        \/ WriteCreate(p)
        \/ WriteCallback(p)

\* no Build is running while the cache calls are looked at
PoolIdle ==
    /\ deps = <<>> /\ failing = {} /\ tree = <<>> /\ concurrency = 0
    /\ acquired = <<>> /\ finished = <<>> /\ cancel = FALSE /\ seen = {}
    /\ stack = <<>> /\ pc = <<>> /\ idx = <<>> /\ rv = <<>>
    /\ mainpc = "idle" /\ received = 0 /\ err = Nil /\ out = Nil
    /\ fstate = <<>> /\ calls = <<>> /\ executes = <<>> /\ recvd = <<>>

\* the initial states of CacheSpec
CacheSpecInit ==
    /\ PoolIdle
    /\ ArgIdle
    /\ RefIdle
    /\ LoadIdle
    /\ ExecIdle
    /\ PathIdle
    /\ FreezeIdle
    /\ CacheInit

CacheSpec == CacheSpecInit /\ [][CacheNext]_vars

(***************************************************************************)
(* Properties of the cache (C12..C15), checked under CacheSpec.            *)
(***************************************************************************)

\* caller p made a TempDir call that has returned
TempDirReturned(p) == cop[p] = "TempDir" /\ cpc[p] = "done"

\* no other caller works on the artifact id of p
Alone(p) == \A q \in Callers \ {p} : cid[q] # cid[p]

\* C12: an entry found at a canonical cache path is always a completely
\* written artifact, for TempDir and for Cache.Write alike, also while the
\* callback of Write is running or after it has failed.
C12_NeverHalfWritten ==
    \A a \in ArtifactIds : cfs[a] # NoEntry => cfs[a].complete

\* C13: after TempDir returned without error for id a, the artifact at
\* path(a) exists and is exactly what the callback staged at
\* dir/relative_path; after it returned an error, path(a) holds nothing
\* partial: the untouched old entry when the callback failed, otherwise
\* nothing or the whole staged artifact.  (A caller alone on its id.)
C13_TempDirPostcondition ==
    \A p \in Callers :
        TempDirReturned(p) /\ Alone(p) =>
            /\ cres[p] = "ok" =>
                  cstaged[p] # NoEntry /\ cfs[cid[p]] = cstaged[p]
            /\ cres[p] = "err" =>
                  IF cerr[p] THEN cfs[cid[p]] = cold[p]
                  ELSE cfs[cid[p]] \in {NoEntry, cstaged[p]}

\* a file staged beside junk was published over an old directory entry
C13_Witness ==
    \E p \in Callers :
        /\ TempDirReturned(p) /\ Alone(p) /\ cres[p] = "ok"
        /\ cstaged[p] = FileEntry(p, TRUE)
        /\ cold[p].kind = "dir"
        /\ cfs[cid[p]] = cstaged[p]

\* C14: after TempDir returned, with or without an error, the staging
\* directory no longer exists, whatever the callback left in it.
C14_StagingRemoved ==
    \A p \in Callers : TempDirReturned(p) => ctmp[p] = NoDir

\* C15: when the callback of TempDir returns an error, nothing is moved
\* into the cache: the steps of that call leave every cache entry as it
\* was, and the call returns an error.
C15_FailedCallbackLeavesCache ==
    [][\A p \in Callers :
          /\ cop[p] = "TempDir"
          /\ cpc'[p] # cpc[p]
          /\ cerr'[p]
          => /\ cfs' = cfs
             /\ cpc'[p] = "done" => cres'[p] = "err"
             /\ cpc'[p] \in {"removeOnErr", "done"}]_vars

\* a failed callback returned while an old artifact was in the cache
C15_Witness ==
    \E p \in Callers :
        /\ TempDirReturned(p) /\ cerr[p] /\ cres[p] = "err"
        /\ cold[p] # NoEntry /\ cfs[cid[p]] = cold[p]

\* C26: a TempDir call that returns an error leaves the artifact that was
\* published at path(id) when it began in place and intact, also when the
\* callback succeeded and the final rename of dir/relative_path failed.
\* (A caller alone on its id.)
C26_FailedCallKeepsOldArtifact ==
    \A p \in Callers :
        (TempDirReturned(p) /\ Alone(p) /\ cres[p] = "err") =>
            cfs[cid[p]] = cold[p]

\* caller p's callback returned nil and staged exactly one artifact at
\* dir/relative_path: the directory itself, or one file and nothing else
StagedClean(p) ==
    /\ cop[p] = "TempDir"
    /\ ~cerr[p]
    /\ cstaged[p] # NoEntry
    /\ crel[p] # "" => ctmp[p].files \subseteq {crel[p]}

\* C27: when two callers publish the same artifact id through TempDir from
\* their own staging directories, whatever the interleaving of their
\* mkdir / remove-old / rename steps, both calls return without error and a
\* complete artifact, the one renamed last, is at path(id); for file and for
\* directory artifacts.
C27_ConcurrentPublishBothSucceed ==
    \A p, q \in Callers :
        (/\ p # q
         /\ cid[p] = cid[q]
         /\ TempDirReturned(p) /\ TempDirReturned(q)
         /\ StagedClean(p) /\ StagedClean(q)
         /\ cstaged[p].kind = cstaged[q].kind) =>
            /\ cres[p] = "ok"
            /\ cres[q] = "ok"
            /\ cfs[cid[p]] \in {cstaged[p], cstaged[q]}

(***************************************************************************)
(* core.LocalExecutor, run by two Builds of the same DAG, one after the    *)
(* other, against the same cache.  Build calls execute once for every      *)
(* target of the DAG (C1, C6); the order of the calls is left free here,   *)
(* which includes every order ProcessConcurrently can produce.             *)
(***************************************************************************)
MaxTargets == 2
ExecTargets == 1..MaxTargets
Builds == 1..2

\* what the plugin selected by a target's builder type does in BuildScript:
\* it publishes through cache.TempDir, it publishes through cache.Write
\* (the noop plugin), it returns without publishing anything (a plugin that
\* breaks the BuildScript postcondition); "none": no plugin has the type
PluginKinds == {"tempdir", "write", "faulty", "none"}

\* the possible cache entries after BuildScript of target t ran and returned
\* nil (e = FALSE) or an error (e = TRUE): TempDir leaves an entry only by
\* its rename; Write fails before os.Create made the file, or in the
\* callback after it
scriptEffect(kind, e, cache, t) ==
    CASE kind = "tempdir" -> IF e THEN {cache} ELSE {cache \cup {t}}
      [] kind = "write" -> IF e THEN {cache, cache \cup {t}}
                           ELSE {cache \cup {t}}
      [] OTHER -> {cache}

ExecInit ==
    /\ xplugin \in [ExecTargets -> PluginKinds]
    /\ xcache \in SUBSET ExecTargets
    /\ xbuild = 1
    /\ xpc = [t \in ExecTargets |-> "todo"]
    /\ xprobe = [b \in Builds |-> [t \in ExecTargets |-> "none"]]
    /\ xscripts = [b \in Builds |-> [t \in ExecTargets |-> 0]]
    /\ xres = [b \in Builds |-> "none"]
    /\ xfailed = [b \in Builds |-> {}]

pluginForAny(kind) == "probe"

\* `for _, plugin := range plugins { if plugin.Type == dag.BuilderType`:
\* without a match execute returns ErrPluginNotFound
pluginFor(kind) == IF kind = "none" THEN "failed" ELSE "probe"

\* execute looks for the plugin of the node's builder type
LookupPlugin(t) ==
    /\ xbuild \in Builds
    /\ xpc[t] = "todo"
    /\ xpc' = [xpc EXCEPT ![t] = pluginFor(xplugin[t])]
    /\ UNCHANGED <<xplugin, xcache, xbuild, xprobe, xscripts, xres, xfailed>>
    /\ UNCHANGED <<poolvars, cachevars, pathvars, freezevars, loadvars,
                   refvars, argvars>>

\* Cache.Exists: nil when os.Stat finds the path, ErrArtifactNotFound when
\* it does not exist, any other error of os.Stat as it is
Exists(cache, t) ==
    IF t \in cache THEN {"nil", "error"} ELSE {"notfound", "error"}

afterExistsRebuild(r) == IF r = "error" THEN "failed" ELSE "script"

\* `if err := cache.Exists(..); err != ErrArtifactNotFound { return err }`
afterExists(r) ==
    CASE r = "notfound" -> "script"
      [] r = "nil" -> "ok"
      [] OTHER -> "failed"

Probe(t) ==
    /\ xbuild \in Builds
    /\ xpc[t] = "probe"
    /\ \E r \in Exists(xcache, t) :
          /\ xprobe' = [xprobe EXCEPT ![xbuild][t] = r]
          /\ xpc' = [xpc EXCEPT ![t] = afterExists(r)]
    /\ UNCHANGED <<xplugin, xcache, xbuild, xscripts, xres, xfailed>>
    /\ UNCHANGED <<poolvars, cachevars, pathvars, freezevars, loadvars,
                   refvars, argvars>>

\* plugin.BuildScript(dag, cache, &stdout, &stderr)
RunBuildScript(t) ==
    /\ xbuild \in Builds
    /\ xpc[t] = "script"
    /\ xscripts' = [xscripts EXCEPT ![xbuild][t] = @ + 1]
    /\ \E e \in BOOLEAN :
          /\ xcache' \in scriptEffect(xplugin[t], e, xcache, t)
          /\ xpc' = [xpc EXCEPT ![t] = IF e THEN "failed" ELSE "ok"]
          /\ xfailed' = [xfailed EXCEPT ![xbuild] =
                            IF e THEN @ \cup {t} ELSE @]
    /\ UNCHANGED <<xplugin, xbuild, xprobe, xres>>
    /\ UNCHANGED <<poolvars, cachevars, pathvars, freezevars, loadvars,
                   refvars, argvars>>

\* Build returns when no execute is running: nil after every execute
\* returned nil, an error after some execute failed (C3, C8, C9); the next
\* Build begins with a new tree
BuildReturns ==
    /\ xbuild \in Builds
    /\ \A t \in ExecTargets : xpc[t] \notin {"probe", "script"}
    /\ \/ /\ \A t \in ExecTargets : xpc[t] = "ok"
          /\ xres' = [xres EXCEPT ![xbuild] = "ok"]
       \/ /\ \E t \in ExecTargets : xpc[t] = "failed"
          /\ xres' = [xres EXCEPT ![xbuild] = "err"]
    /\ xbuild' = xbuild + 1
    /\ xpc' = [t \in ExecTargets |-> "todo"]
    /\ UNCHANGED <<xplugin, xcache, xprobe, xscripts, xfailed>>
    /\ UNCHANGED <<poolvars, cachevars, pathvars, freezevars, loadvars,
                   refvars, argvars>>

ExecNext ==
    \/ \E t \in ExecTargets :
          \/ LookupPlugin(t)
          \/ Probe(t)
          \/ RunBuildScript(t)
    \/ BuildReturns

\* the initial states of ExecSpec
ExecSpecInit ==
    /\ PoolIdle
    /\ ArgIdle
    /\ RefIdle
    /\ LoadIdle
    /\ CacheIdle
    /\ PathIdle
    /\ FreezeIdle
    /\ ExecInit

ExecSpec == ExecSpecInit /\ [][ExecNext]_vars

\* every registered plugin publishes the artifact when its script returns
\* nil
PluginsKeepPostcondition ==
    \A t \in ExecTargets : xplugin[t] # "faulty"

\* C11: when the target's plugin is registered and cache.Exists finds the
\* artifact at path(id), execute returns success without invoking the build
\* script; hence, with plugins that publish what they build, a second Build
\* of the same DAG against the same cache after a successful Build invokes
\* no build script.
C11_CachedNotRebuilt ==
    /\ \A b \in Builds : \A t \in ExecTargets :
          xprobe[b][t] = "nil" =>
              /\ xscripts[b][t] = 0
              /\ b = xbuild => xpc[t] = "ok"
    /\ xres[1] = "ok" /\ PluginsKeepPostcondition =>
          \A t \in ExecTargets : xscripts[2][t] = 0

\* the first Build ran a build script and succeeded, and the second Build
\* succeeded on the cache alone
C11_Witness ==
    /\ xres[1] = "ok" /\ xres[2] = "ok" /\ PluginsKeepPostcondition
    /\ \A t \in ExecTargets : xscripts[1][t] = 1 /\ xprobe[2][t] = "nil"
    /\ \A t \in ExecTargets : xscripts[2][t] = 0

\* C24: for a node whose builder type matches no registered plugin, execute
\* returns ErrPluginNotFound without probing the cache and without invoking
\* a build script, also when an artifact exists at path(node.id).
C24_NoPluginNoProbe ==
    \A t \in ExecTargets :
        xplugin[t] = "none" =>
            /\ \A b \in Builds : xprobe[b][t] = "none" /\ xscripts[b][t] = 0
            /\ xpc[t] \in {"todo", "failed"}
            /\ \A b \in Builds : xres[b] # "ok"

\* execute returned ErrPluginNotFound for a node whose artifact is in the
\* cache
C24_Witness ==
    \E t \in ExecTargets :
        /\ xplugin[t] = "none"
        /\ t \in xcache
        /\ xpc[t] = "failed"
        /\ xbuild = 1

\* C30: after the build script of a node returned an error, no entry is at
\* path(node.id) because of that call, and the next Build with the same cache
\* does not find the artifact but invokes the build script again, for
\* plugins that publish with Cache.TempDir and with Cache.Write.
C30_FailedScriptNotSatisfied ==
    \A t \in ExecTargets :
        /\ \A b \in Builds : (b = xbuild /\ t \in xfailed[b]) => t \notin xcache
        /\ (t \in xfailed[1] /\ xplugin[t] \in {"tempdir", "write"}) =>
              xprobe[2][t] # "nil"

(***************************************************************************)
(* LocalCache: the path of an artifact id.  A string that is used as part  *)
(* of a path is the sequence of its '/'-separated components, "" being the *)
(* empty sequence; filepath.Join skips empty elements and puts one         *)
(* separator between the others, so two joined paths are the same string   *)
(* exactly when their component sequences are equal.                       *)
(***************************************************************************)
PackageNames == {<<>>, <<"__ROOT__">>, <<"a">>, <<"a", "targets">>}
TargetNames == {<<>>, <<"t">>, <<"filegroups">>}
Checksums == {1, 2}
Directory == <<"cache">>

PathArtifactIDs ==
    [Package : PackageNames, Target : TargetNames, Checksum : Checksums]

RECURSIVE filepathJoin(_)
filepathJoin(elems) ==
    IF elems = <<>> THEN <<>>
    ELSE Head(elems) \o filepathJoin(Tail(elems))

\* fmt.Sprint(id.Checksum): the decimal numeral, one component
Sprint(n) == <<n>>

LocalCache(id) ==
    IF id.Target = <<>>
    THEN filepathJoin(<<Directory, <<"packages">>, id.Package,
                        <<"filegroups">>, Sprint(id.Checksum)>>)
    ELSE LET pkg == IF id.Package = <<>> THEN <<"__ROOT__">>
                    ELSE id.Package
         IN filepathJoin(<<Directory, <<"packages">>, pkg, <<"targets">>,
                           id.Target, Sprint(id.Checksum)>>)

PathInit ==
    /\ pids \in [1..2 -> PathArtifactIDs]
    /\ ppaths = <<>>

\* the cache is asked for the paths of both ids
ComputePaths ==
    /\ ppaths = <<>>
    /\ ppaths' = [i \in 1..2 |-> LocalCache(pids[i])]
    /\ UNCHANGED pids
    /\ UNCHANGED <<poolvars, cachevars, execvars, freezevars, loadvars,
                   refvars, argvars>>

PathNext == ComputePaths

\* the initial states of PathSpec
PathSpecInit ==
    /\ PoolIdle
    /\ ArgIdle
    /\ RefIdle
    /\ LoadIdle
    /\ CacheIdle
    /\ ExecIdle
    /\ FreezeIdle
    /\ PathInit

PathSpec == PathSpecInit /\ [][PathNext]_vars

\* C16: the path function of LocalCache is injective: two different
\* artifact ids whose target names contain no '/' never get the same path,
\* the root package "" (stored as "__ROOT__") and file-group artifacts
\* (empty target name) included.
C16_PathInjective ==
    ppaths # <<>> /\ pids[1] # pids[2] => ppaths[1] # ppaths[2]

(***************************************************************************)
(* Checksums.  A string or a file is the sequence of its bytes.  A uint32  *)
(* is the pair <<high 16 bits, low 16 bits>>, which is how Adler-32 lays   *)
(* out its two sums; equal pairs are equal uint32 values.                  *)
(***************************************************************************)
ModAdler == 65521

\* hash/adler32: the sums <<a, b>> after the bytes bs[lo..hi], taken in
\* order, were added to the sums d
RECURSIVE update(_, _, _, _)
update(d, bs, lo, hi) ==
    IF lo > hi THEN d
    ELSE IF lo = hi
    THEN LET a == (d[1] + bs[lo]) % ModAdler
         IN <<a, (d[2] + a) % ModAdler>>
    ELSE LET mid == (lo + hi) \div 2
             l == update(d, bs, lo, mid)
         IN IF l[1] >= 0 THEN update(l, bs, mid + 1, hi) ELSE l

ChecksumBytes(bs) ==
    LET d == update(<<1, 0>>, bs, 1, Len(bs)) IN <<d[2], d[1]>>

ChecksumString(str) == ChecksumBytes(str)

\* binary.BigEndian.PutUint32 of every checksum, one after the other
RECURSIVE bigEndian(_)
bigEndian(checksums) ==
    IF checksums = <<>> THEN <<>>
    ELSE LET c == Head(checksums)
         IN <<c[1] \div 256, c[1] % 256, c[2] \div 256, c[2] % 256>>
                \o bigEndian(Tail(checksums))

JoinChecksums(checksums) == ChecksumBytes(bigEndian(checksums))

(***************************************************************************)
(* The values the freezer works on.                                        *)
(***************************************************************************)
String(str) == [type |-> "String", s |-> str]
FileGroup(pkg, patterns) ==
    [type |-> "FileGroup", Package |-> pkg, Patterns |-> patterns]
Target(id, inputs, builderType) ==
    [type |-> "Target", ID |-> id, Inputs |-> inputs,
     BuilderType |-> builderType]
ArtifactID(ftid) ==
    [type |-> "ArtifactID", Package |-> ftid.Package,
     Target |-> ftid.Target, Checksum |-> ftid.Checksum]

\* ArtifactID.checksum and String.checksum
checksum(v) ==
    IF v.type = "ArtifactID" THEN v.Checksum ELSE ChecksumString(v.s)

RECURSIVE fieldChecksums(_)
fieldChecksums(fo) ==
    IF fo = <<>> THEN <<>>
    ELSE <<ChecksumString(Head(fo).Key), checksum(Head(fo).Value)>>
            \o fieldChecksums(Tail(fo))

\* FrozenObject.checksum
checksumFrozenObject(fo) == JoinChecksums(fieldChecksums(fo))

(***************************************************************************)
(* doublestar.Glob under root/package: the pattern "*" matches every file  *)
(* of the package, any other pattern the file of that name; the matches    *)
(* come in lexical order.                                                  *)
(***************************************************************************)
Star == <<42>>

RECURSIVE lessPath(_, _)
lessPath(x, y) ==
    IF x = <<>> THEN y # <<>>
    ELSE IF y = <<>> THEN FALSE
    ELSE IF Head(x) # Head(y) THEN Head(x) < Head(y)
    ELSE lessPath(Tail(x), Tail(y))

RECURSIVE sortedPaths(_)
sortedPaths(S) ==
    IF S = {} THEN <<>>
    ELSE LET m == CHOOSE x \in S : \A y \in S \ {x} : lessPath(x, y)
         IN <<m>> \o sortedPaths(S \ {m})

Glob(pattern, ws) ==
    IF pattern = Star THEN sortedPaths(DOMAIN ws)
    ELSE IF pattern \in DOMAIN ws THEN <<pattern>>
    ELSE <<>>

RECURSIVE globAll(_, _)
globAll(patterns, ws) ==
    IF patterns = <<>> THEN <<>>
    ELSE Glob(Head(patterns), ws) \o globAll(Tail(patterns), ws)

\* the TempDir callback of freezeFileGroup: the id of the file group and
\* the files it copied into the staging directory
freezeFileGroup(fg, ws) ==
    LET matches == globAll(fg.Patterns, ws)
        checksums ==
            <<ChecksumString(fg.Package)>> \o
            [i \in 1..Len(matches) |->
                JoinChecksums(<<ChecksumString(matches[i]),
                                ChecksumBytes(ws[matches[i]])>>)]
    IN [id |-> ArtifactID([Package |-> fg.Package, Target |-> <<>>,
                           Checksum |-> JoinChecksums(checksums)]),
        files |-> [m \in Range(matches) |-> ws[m]]]

\* Cache.TempDir with relpath "": the staged directory replaces what is at
\* path(id)
publish(cache, g) == {e \in cache : e.id # g.id} \cup {g}

\* f.seen[id] = dag
put(seenmap, id, dag) ==
    [x \in DOMAIN seenmap \cup {id} |-> IF x = id THEN dag ELSE seenmap[x]]

targetDepsDropped(dag) == <<>>

\* freezeInput, case Target: `return []DAG{dag}, dag.ID.ArtifactID(), nil`
targetDeps(dag) == <<dag>>

\* The freezer's state st: root (the workspace), cache, seen (the memo),
\* and a record of what was done: calls (every freezeTarget call with the
\* DAG it returned and whether the memo served it) and groups (every
\* freezeFileGroup call).
\* freezeInput ("input"), freezeObject ("object") and freezeTarget
\* ("target"), which call each other
RECURSIVE freeze(_, _, _)
freeze(what, x, st) ==
    CASE what = "input" /\ x.type = "Target" ->
            LET r == freeze("target", x, st)
            IN [deps |-> targetDeps(r.dag), out |-> ArtifactID(r.dag.ID),
                st |-> r.st]
      [] what = "input" /\ x.type = "FileGroup" ->
            LET g == freezeFileGroup(x, st.root)
            IN [deps |-> <<>>, out |-> g.id,
                st |-> [st EXCEPT
                          !.cache = publish(@, g),
                          !.groups = Append(@, [fg |-> x, id |-> g.id,
                                                matched |-> DOMAIN g.files])]]
      [] what = "input" -> [deps |-> <<>>, out |-> x, st |-> st]
      [] what = "object" ->
            IF x = <<>> THEN [deps |-> <<>>, out |-> <<>>, st |-> st]
            ELSE LET n == Len(x)
                     before == freeze("object", SubSeq(x, 1, n - 1), st)
                     r == freeze("input", x[n].Value, before.st)
                 IN [deps |-> before.deps \o r.deps,
                     out |-> Append(before.out,
                                    [Key |-> x[n].Key, Value |-> r.out]),
                     st |-> r.st]
      [] what = "target" ->
            IF x.ID \in DOMAIN st.seen
            THEN [dag |-> st.seen[x.ID],
                  st |-> [st EXCEPT !.calls = Append(@, [target |-> x,
                                                 dag |-> st.seen[x.ID],
                                                 memo |-> TRUE])]]
            ELSE LET r == freeze("object", x.Inputs, st)
                     dag == [ID |-> [Package |-> x.ID.Package,
                             Target |-> x.ID.Target,
                             Checksum |-> JoinChecksums(<<
                                 ChecksumString(x.ID.Package),
                                 ChecksumString(x.ID.Target),
                                 ChecksumString(x.BuilderType),
                                 checksumFrozenObject(r.out)>>)],
                     Inputs |-> r.out,
                     BuilderType |-> x.BuilderType,
                     Dependencies |-> r.deps]
                 IN [dag |-> dag,
                     st |-> [r.st EXCEPT !.seen = put(@, x.ID, dag),
                                 !.calls = Append(@, [target |-> x,
                                                      dag |-> dag,
                                                      memo |-> FALSE])]]

freezeTarget(t, st) == freeze("target", t, st)

FreezeTarget(root, cache, target) ==
    freezeTarget(target, [root |-> root, cache |-> cache, seen |-> <<>>,
                          calls |-> <<>>, groups |-> <<>>])

(***************************************************************************)
(* The inputs: targets "a" and "b" of package "p" with up to MaxFields     *)
(* fields, whose values are strings, file groups, and targets over strings *)
(* and file groups; files "f" and "g".                                     *)
(***************************************************************************)
MaxFields == 2
LongFileLen == 509

PackageP == <<112>>
BuilderX == <<120>>
FileF == <<102>>
FileG == <<103>>
TargetIDs == {[Package |-> PackageP, Target |-> <<97>>],
              [Package |-> PackageP, Target |-> <<98>>]}

\* the key of the i-th field: "1", "2", ..
Key(i) == <<48 + i>>

Objects(V, n) ==
    UNION {{[i \in 1..k |-> [Key |-> Key(i), Value |-> f[i]]] :
               f \in [1..k -> V]} : k \in 0..n}

LeafInputs ==
    {String(<<115>>), FileGroup(PackageP, <<Star>>),
     FileGroup(PackageP, <<FileF>>)}

LeafTargets ==
    {Target(id, o, BuilderX) : id \in TargetIDs, o \in Objects(LeafInputs, 1)}

RootTargets ==
    {Target(id, o, BuilderX) :
        id \in TargetIDs, o \in Objects(LeafInputs \cup LeafTargets, MaxFields)}

ShortWorkspaces ==
    {[m \in {FileF} |-> <<1>>],
     [m \in {FileF, FileG} |-> IF m = FileF THEN <<1>> ELSE <<2, 1>>]}

\* one long file; a target over the file group of the package, and a
\* target over that target
ChainTargets ==
    LET ta == Target([Package |-> PackageP, Target |-> <<97>>],
                     <<[Key |-> Key(1),
                        Value |-> FileGroup(PackageP, <<Star>>)]>>, BuilderX)
    IN {ta, Target([Package |-> PackageP, Target |-> <<98>>],
                   <<[Key |-> Key(1), Value |-> ta]>>, BuilderX)}

LongWorkspaces ==
    {[m \in {FileF} |-> [i \in 1..LongFileLen |-> fill]] : fill \in 1..6}

FreezeStart ==
    /\ zcache = {}
    /\ zrun = 0
    /\ zout = <<>>
    /\ zchange = <<>>

FreezeInit ==
    /\ zroot \in RootTargets
    /\ zws \in ShortWorkspaces
    /\ FreezeStart

ChangeInit ==
    /\ zroot \in ChainTargets
    /\ zws \in LongWorkspaces
    /\ FreezeStart

\* builder freezes the target: once, and again after a file was edited
Freeze ==
    /\ \/ zrun = 0
       \/ zrun = 1 /\ zchange # <<>>
    /\ LET r == FreezeTarget(zws, zcache, zroot)
       IN /\ zout' = Append(zout, [dag |-> r.dag, calls |-> r.st.calls,
                                   groups |-> r.st.groups])
          /\ zcache' = r.st.cache
    /\ zrun' = zrun + 1
    /\ UNCHANGED <<zroot, zws, zchange>>
    /\ UNCHANGED <<poolvars, cachevars, execvars, pathvars, loadvars, refvars,
                   argvars>>

\* an edit changes the first or the last byte of a source file
ChangeByte ==
    /\ zrun = 1
    /\ zchange = <<>>
    /\ \E m \in DOMAIN zws : \E i \in {1, Len(zws[m])} : \E d \in {1, 255} :
          /\ zws' = [zws EXCEPT ![m][i] = (@ + d) % 256]
          /\ zchange' = [file |-> m, pos |-> i]
    /\ UNCHANGED <<zroot, zcache, zrun, zout>>
    /\ UNCHANGED <<poolvars, cachevars, execvars, pathvars, loadvars, refvars,
                   argvars>>

FreezeNext ==
    \/ Freeze
    \/ ChangeByte

\* the initial states of FreezeSpec
FreezeSpecInit ==
    /\ PoolIdle
    /\ ArgIdle
    /\ RefIdle
    /\ LoadIdle
    /\ CacheIdle
    /\ ExecIdle
    /\ PathIdle
    /\ FreezeInit

FreezeSpec == FreezeSpecInit /\ [][FreezeNext]_vars

\* the initial states of ChangeSpec
ChangeSpecInit ==
    /\ PoolIdle
    /\ ArgIdle
    /\ RefIdle
    /\ LoadIdle
    /\ CacheIdle
    /\ ExecIdle
    /\ PathIdle
    /\ ChangeInit

ChangeSpec == ChangeSpecInit /\ [][FreezeNext]_vars

(***************************************************************************)
(* Properties of the freezer (C17..C20).                                   *)
(***************************************************************************)

\* the nodes of a DAG: the node itself and all it reaches
RECURSIVE dagNodes(_)
dagNodes(dag) ==
    {dag} \cup UNION {dagNodes(dep) : dep \in Range(dag.Dependencies)}

\* the ArtifactIDs among the frozen inputs of a node
inputIDs(node) ==
    {node.Inputs[i].Value : i \in {j \in DOMAIN node.Inputs :
                                      node.Inputs[j].Value.type = "ArtifactID"}}

\* the result of the latest FreezeTarget call, made on the workspace as it
\* is now
Frozen == zout # <<>> /\ (zrun = 1 => zchange = <<>>)
Latest == zout[Len(zout)]

C18_SameTargetSameNode ==
    \A k \in DOMAIN zout :
        LET made == zout[k].calls IN
        /\ \A i, j \in DOMAIN made :
              made[i].target.ID = made[j].target.ID =>
                  made[i].dag = made[j].dag
        /\ \A id \in TargetIDs :
              Cardinality({i \in DOMAIN made :
                              made[i].target.ID = id /\ ~made[i].memo}) <= 1

\* the fingerprint of a target computed from its own inputs alone:
\* combine(hash(package), hash(name), hash(builder type), hash(frozen
\* inputs))
RECURSIVE fingerprint(_, _)
fingerprint(t, ws) ==
    LET alone(i) ==
            CASE i.type = "Target" ->
                    ArtifactID([Package |-> i.ID.Package,
                                Target |-> i.ID.Target,
                                Checksum |-> fingerprint(i, ws)])
              [] i.type = "FileGroup" -> freezeFileGroup(i, ws).id
              [] OTHER -> i
    IN JoinChecksums(<<ChecksumString(t.ID.Package),
                       ChecksumString(t.ID.Target),
                       ChecksumString(t.BuilderType),
                       checksumFrozenObject(
                           [i \in DOMAIN t.Inputs |->
                               [Key |-> t.Inputs[i].Key,
                                Value |-> alone(t.Inputs[i].Value)]])>>)

\* C19: for every Target t reached during a freeze, also when the memo
\* serves it, the ArtifactID substituted for t carries the fingerprint
\* computed from t's own inputs alone, even when two Target values with the
\* same TargetID but different inputs occur in the tree.
C19_OwnFingerprint ==
    Frozen =>
        \A i \in DOMAIN Latest.calls :
            Latest.calls[i].dag.ID.Checksum
                = fingerprint(Latest.calls[i].target, zws)

\* whether file m is matched by a file group among the transitive inputs
\* of target t
RECURSIVE reads(_, _, _)
reads(t, m, ws) ==
    \E i \in DOMAIN t.Inputs :
        LET v == t.Inputs[i].Value IN
        CASE v.type = "Target" -> reads(v, m, ws)
          [] v.type = "FileGroup" -> m \in Range(globAll(v.Patterns, ws))
          [] OTHER -> FALSE

\* C20: changing any byte of any file matched by a FileGroup among the
\* transitive inputs of a target changes the file group's fingerprint and
\* the fingerprint of every target from the file group up to the top-level
\* target.
C20_ByteChangeChangesFingerprints ==
    zrun = 2 =>
        /\ \A i \in DOMAIN zout[1].groups :
              zchange.file \in zout[1].groups[i].matched =>
                  zout[1].groups[i].id # zout[2].groups[i].id
        /\ \A i \in DOMAIN zout[1].calls :
              reads(zout[1].calls[i].target, zchange.file, zws) =>
                  zout[1].calls[i].dag.ID.Checksum
                      # zout[2].calls[i].dag.ID.Checksum

\* ------------------------------------------------------------------------
\* Evaluator.Evaluate: the memoizing module loader `load`
\* ------------------------------------------------------------------------
\* number of modules (.star files) the BUILD file can reach
MaxModules == 2

Modules == 1..MaxModules

\* `e, ok := cache[mod]; if e == nil { if ok {`: the placeholder is there
inProgressNever(c, m) == FALSE

inProgress(c, m) == c[m] = "nil"

\* the initial states of LoadSpec: ExecFile of the BUILD file has begun
LoadSpecInit ==
    /\ PoolIdle
    /\ ArgIdle
    /\ RefIdle
    /\ CacheIdle
    /\ ExecIdle
    /\ PathIdle
    /\ FreezeIdle
    /\ lloads \in [0..MaxModules ->
                     UNION { [1..k -> Modules] : k \in 0..2 }]
    /\ lcache = [m \in Modules |-> "absent"]
    /\ lstack = <<[file |-> 0, i |-> 1, failed |-> FALSE]>>
    /\ lexecs = [m \in Modules |-> 0]
    /\ lhist = <<>>
    /\ lres = "none"

\* the innermost ExecFile after its load statement got an error (it stops)
\* or the globals (it goes on with the next statement)
Resume(st, failed) ==
    [st EXCEPT ![Len(st)] = IF failed THEN [@ EXCEPT !.failed = TRUE]
                            ELSE [@ EXCEPT !.i = @ + 1]]

\* the running file executes its next load statement: thread.Load is `load`,
\* up to the point where it returns or calls starlark.ExecFile
Load ==
    /\ lres = "none"
    /\ lstack # <<>>
    /\ LET top == lstack[Len(lstack)] IN
       /\ ~top.failed
       /\ top.i <= Len(lloads[top.file])
       /\ LET m == lloads[top.file][top.i] IN
          IF lcache[m] \in {"absent", "nil"}
          THEN IF inProgress(lcache, m)
               THEN /\ lhist' = Append(lhist, <<m, "cycle">>)
                    /\ lstack' = Resume(lstack, TRUE)
                    /\ UNCHANGED <<lcache, lexecs>>
               ELSE /\ lcache' = [lcache EXCEPT ![m] = "nil"]
                    /\ \/ /\ lhist' = Append(lhist, <<m, "readerr">>)
                          /\ lstack' = Resume(lstack, TRUE)
                          /\ UNCHANGED lexecs
                       \/ /\ lhist' = Append(lhist, <<m, "exec">>)
                          /\ lstack' = Append(lstack, [file |-> m, i |-> 1,
                                                       failed |-> FALSE])
                          /\ lexecs' = [lexecs EXCEPT ![m] = @ + 1]
          ELSE /\ lhist' = Append(lhist, <<m, "memo">>)
               /\ lstack' = Resume(lstack, lcache[m] = "err")
               /\ UNCHANGED <<lcache, lexecs>>
    /\ UNCHANGED <<lloads, lres>>
    /\ UNCHANGED <<poolvars, cachevars, execvars, pathvars, freezevars,
                   refvars, argvars>>

\* starlark.ExecFile returns: after the last statement, after a failed load,
\* or with an error of the file's own; for a module `cache[mod] = e` and
\* `return e.globals, e.err` to the load statement, for the BUILD file
\* `return targets.targets, err`
ExecFileReturns ==
    /\ lres = "none"
    /\ lstack # <<>>
    /\ LET top == lstack[Len(lstack)] IN
       \E own \in BOOLEAN :
          /\ top.failed \/ own \/ top.i > Len(lloads[top.file])
          /\ LET failed == top.failed \/ own IN
             IF top.file = 0
             THEN /\ lres' = IF failed THEN "err" ELSE "ok"
                  /\ lstack' = <<>>
                  /\ UNCHANGED lcache
             ELSE /\ lcache' = [lcache EXCEPT ![top.file] =
                                  IF failed THEN "err" ELSE "ok"]
                  /\ lstack' = Resume(SubSeq(lstack, 1, Len(lstack) - 1),
                                      failed)
                  /\ UNCHANGED lres
    /\ UNCHANGED <<lloads, lexecs, lhist>>
    /\ UNCHANGED <<poolvars, cachevars, execvars, pathvars, freezevars,
                   refvars, argvars>>

LoadNext ==
    \/ Load
    \/ ExecFileReturns

LoadSpec == LoadSpecInit /\ [][LoadNext]_vars

\* C21: during one Evaluate call every module is executed at most once, a
\* load of a module that was executed before is answered from the memo
\* without executing it, and a load fails with "cycle in load graph" exactly
\* when the load of that module is in progress at that moment, never for a
\* module whose earlier load has ended.
C21_MemoAndCycle ==
    [][Len(lhist') > Len(lhist) =>
          LET m == lhist'[Len(lhist')][1]
              how == lhist'[Len(lhist')][2]
              running == \E k \in DOMAIN lstack : lstack[k].file = m
              ended == ~running /\ \E k \in DOMAIN lhist : lhist[k][1] = m
          IN  /\ lexecs'[m] <= 1
              /\ (how = "cycle") = running
              /\ (ended /\ lexecs[m] = 1) => (how = "memo" /\ lexecs' = lexecs)
              /\ ended => how # "cycle"]_vars

\* a load was answered from the memo and a later load of a module whose
\* load was in progress failed with the cycle error
C21_Witness ==
    /\ \E k \in DOMAIN lhist : lhist[k][2] = "memo"
    /\ lhist # <<>>
    /\ lhist[Len(lhist)][2] = "cycle"
    /\ \A m \in Modules : lexecs[m] = 1

\* ------------------------------------------------------------------------
\* core.ParseTargetID
\* ------------------------------------------------------------------------
\* A string is held as what strings.Split(s, "/") gives: a non-empty
\* sequence of components ("" is <<"">>, "//a" is <<"", "", "a">>, "../" is
\* <<"..", "">>).  An absolute clean path is the sequence of its names.

\* longest package string of a reference, in components
MaxComponents == 4

\* filepath.Join(base, rel) for an absolute clean base: the components of rel
\* are applied to base as filepath.Clean does ("" and "." dropped, ".." takes
\* the last name away and stays at the root)
RECURSIVE filepathClean(_, _)
filepathClean(base, rel) ==
    IF rel = <<>> THEN base
    ELSE LET c == Head(rel) IN
         filepathClean(IF c \in {"", "."} THEN base
                       ELSE IF c # ".." THEN Append(base, c)
                       ELSE IF base = <<>> THEN base
                       ELSE SubSeq(base, 1, Len(base) - 1),
                       Tail(rel))

\* filepath.Rel(base, targ) for two absolute clean paths: ".." for every
\* name of base after the common prefix, then the rest of targ; "." when
\* they are the same
filepathRel(base, targ) ==
    LET lens == { k \in 0..Len(base) :
                    k <= Len(targ) /\ SubSeq(base, 1, k) = SubSeq(targ, 1, k) }
        k == CHOOSE x \in lens : \A y \in lens : y <= x
        r == [j \in 1..(Len(base) - k) |-> ".."]
                 \o SubSeq(targ, k + 1, Len(targ))
    IN  IF r = <<>> THEN <<".">> ELSE r

ParseTargetID(workspace, cwd, s) ==
    IF ~s.colon THEN [err |-> "InvalidTargetID"]
    ELSE LET pn == s.pkg
             rooted == Len(pn) >= 3 /\ pn[1] = "" /\ pn[2] = ""
             result == filepathRel(workspace, filepathClean(cwd, pn))
             packageName == IF rooted THEN SubSeq(pn, 3, Len(pn))
                            ELSE IF result = <<".">> THEN <<"">>
                            ELSE result
         IN  IF rooted /\ Len(pn) >= 4 /\ pn[3] = "."
             THEN [err |-> "InvalidTargetID"]
             ELSE IF Len(packageName) >= 2 /\ packageName[1] = ".."
             THEN [err |-> "PackageNameNotInWorkspace"]
             ELSE [err |-> "nil", Package |-> packageName,
                   Target |-> s.name]

\* the initial states of RefSpec: a workspace, a working directory inside it
\* and a reference string
RefSpecInit ==
    /\ PoolIdle
    /\ ArgIdle
    /\ CacheIdle
    /\ ExecIdle
    /\ PathIdle
    /\ FreezeIdle
    /\ LoadIdle
    /\ rworkspace \in {<<"w">>, <<"w", "a">>}
    /\ rcwd \in {rworkspace, Append(rworkspace, "a")}
    /\ rs \in [colon : BOOLEAN,
               pkg : UNION { [1..k -> {"", ".", "..", "a"}] :
                               k \in 1..MaxComponents },
               name : {"t"}]
    /\ rout = [err |-> "none"]

\* one call of ParseTargetID
ParseRef ==
    /\ rout = [err |-> "none"]
    /\ rout' = ParseTargetID(rworkspace, rcwd, rs)
    /\ UNCHANGED <<rworkspace, rcwd, rs>>
    /\ UNCHANGED <<poolvars, cachevars, execvars, pathvars, freezevars,
                   loadvars, argvars>>

RefSpec == RefSpecInit /\ [][ParseRef]_vars

\* the directory a package string stands for: under the workspace for a
\* "//" package, else under the working directory
Resolve(workspace, cwd, pn) ==
    IF Len(pn) >= 3 /\ pn[1] = "" /\ pn[2] = ""
    THEN filepathClean(workspace, pn)
    ELSE filepathClean(cwd, pn)

\* C22: ParseTargetID returns an error, not a TargetID, for every reference
\* whose package resolves to a path outside the workspace root through ".."
\* components, a package that normalizes to exactly ".." included.
C22_NoEscape ==
    LET dir == Resolve(rworkspace, rcwd, rs.pkg) IN
    (/\ rout.err # "none"
     /\ rs.colon
     /\ \/ Len(dir) < Len(rworkspace)
        \/ SubSeq(dir, 1, Len(rworkspace)) # rworkspace) => rout.err # "nil"

\* ------------------------------------------------------------------------
\* slutil.ParseArgs
\* ------------------------------------------------------------------------
\* A keyword is a number; the specs are PosSpecs = <<1, .., p>> and
\* KwSpecs = <<p + 1, .., p + k>>, and one more keyword is in no spec.

\* most specs of each kind
MaxSpecs == 2
\* most keyword arguments of a call
MaxKwArgs == 2

\* ParseArgs(fn, args, spec): the error it returns, up to the checks of the
\* values by the specs' Value functions (taken to accept)
ParseArgs(args, spec) ==
    LET np == Len(spec.PosSpecs)
        nk == Len(spec.KwSpecs)
        \* the body of the loop NEXT_KW for args.Kw[i]
        kwErr(i) ==
            LET kw == args.Kw[i] IN
            IF \E j \in DOMAIN args.Kw : args.Kw[j] = kw /\ i # j
            THEN [err |-> "MultipleValuesForArg", Arg |-> kw]
            ELSE IF \E x \in 1..np : spec.PosSpecs[x] = kw
            THEN LET x == CHOOSE x \in 1..np : spec.PosSpecs[x] = kw IN
                 IF x - 1 < Len(args.Pos)
                 THEN [err |-> "MultipleValuesForArg", Arg |-> kw]
                 ELSE [err |-> "nil"]
            ELSE IF \E x \in 1..nk : spec.KwSpecs[x] = kw
            THEN LET x == CHOOSE x \in 1..nk : spec.KwSpecs[x] = kw IN
                 IF x - 1 < Len(args.Pos)
                 THEN [err |-> "MultipleValuesForArg", Arg |-> kw]
                 ELSE [err |-> "nil"]
            ELSE [err |-> "UnexpectedKeywordArg", Arg |-> kw]
        bad == { i \in DOMAIN args.Kw : kwErr(i).err # "nil" }
        missing == { x \in (Len(args.Pos) + 1)..np :
                       ~\E i \in DOMAIN args.Kw :
                           args.Kw[i] = spec.PosSpecs[x] }
    IN  IF Len(args.Pos) > np + nk THEN [err |-> "WrongPosArgCount"]
        ELSE IF bad # {}
        THEN kwErr(CHOOSE i \in bad : \A j \in bad : i <= j)
        ELSE IF Len(args.Pos) < np /\ missing # {}
        THEN [err |-> "MissingRequiredArguments"]
        ELSE [err |-> "nil"]

\* the initial states of ArgSpec: a spec and the arguments of one call
ArgSpecInit ==
    /\ PoolIdle
    /\ CacheIdle
    /\ ExecIdle
    /\ PathIdle
    /\ FreezeIdle
    /\ LoadIdle
    /\ RefIdle
    /\ \E p, k \in 0..MaxSpecs :
          /\ aspec = [PosSpecs |-> [x \in 1..p |-> x],
                      KwSpecs |-> [x \in 1..k |-> p + x]]
          /\ aargs \in [Pos : { [x \in 1..n |-> "v"] : n \in 0..(p + k + 1) },
                        Kw : UNION { [1..n -> 1..(p + k + 1)] :
                                       n \in 0..MaxKwArgs }]
    /\ aout = [err |-> "none"]

\* one call of ParseArgs
CallParseArgs ==
    /\ aout = [err |-> "none"]
    /\ aout' = ParseArgs(aargs, aspec)
    /\ UNCHANGED <<aspec, aargs>>
    /\ UNCHANGED <<poolvars, cachevars, execvars, pathvars, freezevars,
                   loadvars, refvars>>

ArgSpec == ArgSpecInit /\ [][CallParseArgs]_vars

\* how many values the call gives to keyword kw: one for each keyword
\* argument of that name, and one more when kw is the parameter at a
\* position that has a positional argument
Received(kw) ==
    LET params == aspec.PosSpecs \o aspec.KwSpecs IN
    Cardinality({ i \in DOMAIN aargs.Kw : aargs.Kw[i] = kw })
        + Cardinality({ x \in DOMAIN params :
                          params[x] = kw /\ x <= Len(aargs.Pos) })

\* C23: ParseArgs returns MultipleValuesForArgErr for a parameter exactly
\* when that parameter receives more than one value: a call in which every
\* parameter receives at most one value never fails with that error, and a
\* call with no other fault in which some parameter receives two values
\* does.
C23_MultipleValuesExact ==
    aout.err # "none" =>
        /\ aout.err = "MultipleValuesForArg" => Received(aout.Arg) > 1
        /\ (/\ \E kw \in 1..(Len(aspec.PosSpecs) + Len(aspec.KwSpecs)) :
                  Received(kw) > 1
            /\ Len(aargs.Pos) <= Len(aspec.PosSpecs) + Len(aspec.KwSpecs)
            /\ \A i \in DOMAIN aargs.Kw :
                  aargs.Kw[i] <= Len(aspec.PosSpecs) + Len(aspec.KwSpecs))
              => aout.err = "MultipleValuesForArg"

====
